---- MODULE Spec2Model ----
(***************************************************************************)
(* Department portal backend: one table, class_semester_info, behind eight *)
(* HTTP handlers (src/server.js, the PostgreSQL build, and                 *)
(* src/unnamed/part_000, the MySQL build of the same routes).              *)
(*                                                                         *)
(* State: the table, the upload directories, the store's id sequence, the  *)
(* clock Date.now() reads, and the last request with its response.         *)
(***************************************************************************)
EXTENDS Integers, Sequences, FiniteSets, TLC

VARIABLES backend, store, nextId, disk, now, deleted, last

vars == <<backend, store, nextId, disk, now, deleted, last>>

(* ---------------------------------------------------------------- bounds *)
MaxRows == 2
MaxId == 2
MaxNow == 2

(* ------------------------------------------------------------ JS values  *)
(* A text is a sequence of one-character strings.                          *)
Undefined == [t |-> "undefined"]
Null == [t |-> "null"]
NaN == [t |-> "NaN"]
Str(s) == [t |-> "string", s |-> s]
Num(n) == [t |-> "number", n |-> n]

IsStr(v) == v.t = "string"
IsNum(v) == v.t = "number"

Whitespace == {" "}
Digits == <<"0", "1", "2", "3", "4", "5", "6", "7", "8", "9">>
IsDigit(c) == \E i \in 1..Len(Digits) : Digits[i] = c
DigitVal(c) == (CHOOSE i \in 1..Len(Digits) : Digits[i] = c) - 1

RECURSIVE TrimStart(_)
TrimStart(s) ==
  IF s # <<>> /\ Head(s) \in Whitespace THEN TrimStart(Tail(s)) ELSE s

RECURSIVE TrimEnd(_)
TrimEnd(s) ==
  IF s # <<>> /\ s[Len(s)] \in Whitespace
    THEN TrimEnd(SubSeq(s, 1, Len(s) - 1))
    ELSE s

(* String.prototype.trim, and SQL TRIM(x) on a text                        *)
Trim(s) == TrimEnd(TrimStart(s))

(* v.trim() on a string                                                    *)
JsTrim(v) == Str(Trim(v.s))

(* v?.trim(): undefined when v is undefined or null                        *)
OptTrim(v) == IF v \in {Undefined, Null} THEN Undefined ELSE JsTrim(v)

(* JS truthiness of the values the handlers see                            *)
Truthy(v) ==
  CASE IsStr(v) -> v.s # <<>>
    [] IsNum(v) -> v.n # 0
    [] OTHER -> FALSE

(* v || ""                                                                 *)
OrEmpty(v) == IF Truthy(v) THEN v ELSE Str(<<>>)

(* String(v) of a string is the string                                     *)
JsString(v) == v

RECURSIVE ParseDigits(_, _)
ParseDigits(s, acc) ==
  IF s = <<>> THEN acc ELSE ParseDigits(Tail(s), 10 * acc + DigitVal(Head(s)))

(* Number(v): undefined is NaN, null and the blank string are 0, a run of  *)
(* digits (surrounding whitespace ignored) is its value, other text is NaN *)
JsNumber(v) ==
  CASE v = Undefined -> NaN
    [] v = Null -> Num(0)
    [] IsNum(v) -> v
    [] v = NaN -> NaN
    [] IsStr(v) ->
         LET d == Trim(v.s) IN
           IF \A i \in 1..Len(d) : IsDigit(d[i])
             THEN Num(ParseDigits(d, 0))
             ELSE NaN

(* ------------------------------------------------------- the data store  *)
(* A column holds a text, a number or NULL (Null).  undefined and null are *)
(* both sent to the store as NULL by the drivers.                          *)
ToParam(v) == IF v = Undefined THEN Null ELSE v

BindError == [t |-> "error"]

(* A parameter bound to the integer column semester: NULL stays NULL, a    *)
(* number or a text of digits is that integer; NaN (sent as the text 'NaN' *)
(* by pg, as the bare word NaN by mysql2) and any other text make the      *)
(* statement fail.                                                         *)
BindSemester(v) ==
  CASE ToParam(v) = Null -> Null
    [] IsNum(v) -> v
    [] IsStr(v) -> IF JsNumber(v) = NaN \/ Trim(v.s) = <<>> THEN BindError ELSE JsNumber(v)
    [] OTHER -> BindError

(* A path parameter bound to the integer column id                         *)
BindId(v) == BindSemester(v)

(* SQL TRIM(x)                                                             *)
SqlTrim(v) == IF v = Null THEN Null ELSE Str(Trim(v.s))

(* SQL a = b is true only of two non-NULL equal values                     *)
SqlEq(a, b) == a # Null /\ b # Null /\ a = b

(* SQL a <> b is true only of two non-NULL different values                *)
SqlNe(a, b) == a # Null /\ b # Null /\ a # b

Columns ==
  {"class_name", "semester", "section", "academic_year", "mentor_name",
   "designation", "contact", "timetable_link"}

Attachments == {"syllabus_link", "mentor_photo"}

(* The column values the parameters p of a statement are bound to         *)
Bound(p) ==
  [k \in DOMAIN p |-> IF k = "semester" THEN BindSemester(p[k]) ELSE ToParam(p[k])]

(* The row INSERT makes of the parameters p, under id                      *)
RowOf(id, p) ==
  LET v == Bound(p)
  IN [k \in DOMAIN p \cup {"id"} |-> IF k = "id" THEN id ELSE v[k]]

(* ------------------------------------------------------------ ordering   *)
Alphabet ==
  <<" ", ".", "/", "0", "1", "2", "3", "4", "5", "6", "7", "8", "9",
    "A", "B", "X", "Y", "_", "a", "b", "m", "t", "x", "y", "z">>
CharRank(c) == CHOOSE i \in 1..Len(Alphabet) : Alphabet[i] = c

RECURSIVE TextLeq(_, _)
TextLeq(a, b) ==
  IF a = <<>> THEN TRUE
  ELSE IF b = <<>> THEN FALSE
  ELSE IF Head(a) = Head(b) THEN TextLeq(Tail(a), Tail(b))
  ELSE CharRank(Head(a)) < CharRank(Head(b))

(* ORDER BY x ascending: NULL sorts after every value                      *)
SqlLeq(a, b) ==
  IF b = Null THEN TRUE
  ELSE IF a = Null THEN FALSE
  ELSE IF IsNum(a) THEN a.n <= b.n
  ELSE TextLeq(a.s, b.s)

(* The orders in which a result set S can be returned                      *)
Orderings(S) ==
  {q \in [1..Cardinality(S) -> S] : \A x \in S : \E i \in DOMAIN q : q[i] = x}

IsSorted(q) == \A i, j \in DOMAIN q : i < j => SqlLeq(q[i], q[j])

(* ------------------------------------------------------ upload storage   *)
RECURSIVE NumText(_)
(* Date.now() + "": the decimal digits of n                                *)
NumText(n) ==
  IF n < 10 THEN <<Digits[n + 1]>>
  ELSE NumText(n \div 10) \o <<Digits[(n % 10) + 1]>>

RECURSIVE SafeName(_)
(* originalname.replace(/\s+/g, "_"): each run of whitespace becomes "_"   *)
SafeName(s) ==
  IF s = <<>> THEN <<>>
  ELSE IF Head(s) \in Whitespace
    THEN <<"_">> \o SafeName(TrimStart(s))
    ELSE <<Head(s)>> \o SafeName(Tail(s))

(* storage.filename                                                        *)
StoredName(ts, originalname) == NumText(ts) \o <<"_">> \o SafeName(originalname)

(* storage.destination, below __dirname                                    *)
Destination(fieldname) ==
  IF fieldname = "syllabus" THEN <<"uploads/syllabus">> ELSE <<"uploads/mentors">>

(* The file the middleware writes for an upload of field fieldname         *)
StoredFile(fieldname, ts, originalname) ==
  Destination(fieldname) \o <<"/">> \o StoredName(ts, originalname)

FileFields == {"syllabus", "mentor_photo"}

(* req.files after upload.fields: the stored filename of each field sent   *)
ReqFiles(f, ts) ==
  [k \in FileFields |->
     IF f[k] = Undefined THEN Undefined ELSE Str(StoredName(ts, f[k].s))]

(* The files the middleware has written when the handler runs              *)
Written(f, ts) ==
  {StoredFile(k, ts, f[k].s) : k \in {x \in FileFields : f[x] # Undefined}}

(* express.static("uploads") under /uploads: the file a link is served from *)
Served(link) == Tail(link.s)

(* ------------------------------------------------------- admin: add      *)
(* syllabusPath and photoPath                                              *)
SyllabusPath(files) ==
  IF files.syllabus # Undefined
    THEN Str(<<"/">> \o <<"uploads/syllabus">> \o <<"/">> \o files.syllabus.s)
    ELSE Null

PhotoPath(files) ==
  IF files.mentor_photo # Undefined
    THEN Str(<<"/">> \o <<"uploads/mentors">> \o <<"/">> \o files.mentor_photo.s)
    ELSE Null

(* The parameters of UPDATE, and of the MySQL build's INSERT               *)
UpdateParams(b) ==
  [class_name |-> OptTrim(b.class_name),
   semester |-> b.semester,
   section |-> OrEmpty(OptTrim(b.section)),
   academic_year |-> OptTrim(b.academic_year),
   mentor_name |-> OptTrim(b.mentor_name),
   designation |-> OptTrim(b.designation),
   contact |-> OptTrim(b.contact),
   timetable_link |-> OptTrim(b.timetable_link)]

(* The parameters of the PostgreSQL build's INSERT                         *)
AddParamsPg(b) ==
  [class_name |-> JsTrim(JsString(OrEmpty(b.class_name))),
   semester |-> JsNumber(b.semester),
   section |-> JsTrim(JsString(OrEmpty(b.section))),
   academic_year |-> JsTrim(JsString(OrEmpty(b.academic_year))),
   mentor_name |-> JsTrim(JsString(OrEmpty(b.mentor_name))),
   designation |-> JsTrim(JsString(OrEmpty(b.designation))),
   contact |-> JsTrim(JsString(OrEmpty(b.contact))),
   timetable_link |->
     IF Truthy(b.timetable_link) THEN JsTrim(JsString(b.timetable_link)) ELSE Null]

(* The parameters of the MySQL build's INSERT                              *)
AddParamsMy(b) == UpdateParams(b)

AddParams(be, b) == IF be = "pg" THEN AddParamsPg(b) ELSE AddParamsMy(b)

WithFiles(p, files) ==
  [k \in DOMAIN p \cup Attachments |->
     IF k = "syllabus_link" THEN SyllabusPath(files)
     ELSE IF k = "mentor_photo" THEN PhotoPath(files)
     ELSE p[k]]

(* INSERT: one new row under the next id of the sequence                   *)
Inserted(rows, id, p) == rows \cup {RowOf(id, p)}

(* POST /api/admin/add with body b and uploads f; dbUp: the store answers  *)
Add(b, f, dbUp) ==
  /\ LET files == ReqFiles(f, now)
         p == WithFiles(AddParams(backend, b), files)
         ok == dbUp /\ BindSemester(p.semester) # BindError
     IN /\ disk' = disk \cup Written(f, now)
        /\ store' = IF ok THEN Inserted(store, nextId, p) ELSE store
        /\ nextId' = IF ok THEN nextId + 1 ELSE nextId
        /\ last' = [op |-> "add",
                    status |-> IF ok THEN 200 ELSE 500,
                    res |-> IF ok THEN "Record added successfully" ELSE "Insert failed"]
  /\ UNCHANGED <<backend, now, deleted>>

(* ------------------------------------------------------- admin: update   *)
(* Updated with the attachment columns overwritten as well                 *)
Updated_ClearsFiles(r, v) ==
  [k \in DOMAIN r |->
     IF k = "id" THEN r.id ELSE IF k \in Attachments THEN Null ELSE v[k]]

(* SET class_name=$1, ..., timetable_link=$8 on row r, v the bound values  *)
Updated(r, v) ==
  [r EXCEPT !.class_name = v.class_name,
            !.semester = v.semester,
            !.section = v.section,
            !.academic_year = v.academic_year,
            !.mentor_name = v.mentor_name,
            !.designation = v.designation,
            !.contact = v.contact,
            !.timetable_link = v.timetable_link]

(* WHERE id=$n, key the bound id                                           *)
HasId(r, key) == SqlEq(Num(r.id), key)

(* UpdateRows as an upsert: a row is made when none has the id            *)
UpdateRows_Upsert(rows, id, p) ==
  LET key == BindId(id)
      v == Bound(p)
  IN IF \E r \in rows : HasId(r, key)
       THEN {IF HasId(r, key) THEN Updated(r, v) ELSE r : r \in rows}
       ELSE rows \cup {[k \in DOMAIN v \cup {"id", "syllabus_link", "mentor_photo"} |->
                          IF k = "id" THEN key.n
                          ELSE IF k \in Attachments THEN Null ELSE v[k]]}

(* UPDATE ... WHERE id                                                     *)
UpdateRows(rows, id, p) ==
  LET key == BindId(id)
      v == Bound(p)
  IN {IF HasId(r, key) THEN Updated(r, v) ELSE r : r \in rows}

(* PUT /api/admin/update/:id                                               *)
Update(id, b, dbUp) ==
  /\ LET p == UpdateParams(b)
         ok == /\ dbUp
               /\ BindSemester(p.semester) # BindError
               /\ BindId(id) # BindError
     IN /\ store' = IF ok THEN UpdateRows(store, id, p) ELSE store
        /\ last' = [op |-> "update", id |-> id,
                    status |-> IF ok THEN 200 ELSE 500,
                    res |-> IF ok THEN "Record updated successfully" ELSE "Update failed"]
  /\ UNCHANGED <<backend, nextId, disk, now, deleted>>

(* ------------------------------------------------------- admin: delete   *)
(* DeleteRows without its WHERE clause                                     *)
DeleteRows_All(rows, id) == {}

(* DELETE ... WHERE id                                                     *)
DeleteRows(rows, id) ==
  LET key == BindId(id) IN {r \in rows : ~HasId(r, key)}

(* DELETE /api/admin/delete/:id                                            *)
Delete(id, dbUp) ==
  /\ LET ok == dbUp /\ BindId(id) # BindError
         gone == IF ok THEN store \ DeleteRows(store, id) ELSE {}
     IN /\ store' = IF ok THEN DeleteRows(store, id) ELSE store
        /\ deleted' = deleted \cup {r.id : r \in gone}
        /\ last' = [op |-> "delete", id |-> id, affected |-> Cardinality(gone),
                    status |-> IF ok THEN 200 ELSE 500,
                    res |-> IF ok THEN "Record deleted successfully" ELSE "Delete failed"]
  /\ UNCHANGED <<backend, nextId, disk, now>>

(* ------------------------------------------------------------ lookups    *)
(* A handler's answer: the status and the JSON body                        *)
Answer(status, res) == [status |-> status, res |-> res]

(* SELECT DISTINCT class_name: the result set                              *)
ClassNames(rows) == {r.class_name : r \in rows}

(* The arrays the classes query can return: ORDER BY class_name in the     *)
(* PostgreSQL build, no ORDER BY (any order) in the MySQL build            *)
ClassesResult(be, rows) ==
  IF be = "pg"
    THEN {q \in Orderings(ClassNames(rows)) : IsSorted(q)}
    ELSE Orderings(ClassNames(rows))

ClassesResponses(be, rows, dbUp) ==
  IF dbUp THEN {Answer(200, q) : q \in ClassesResult(be, rows)}
  ELSE {Answer(500, <<>>)}

(* GET /api/classes                                                        *)
Classes(dbUp) ==
  /\ \E a \in ClassesResponses(backend, store, dbUp) :
       last' = [op |-> "classes", status |-> a.status, res |-> a.res]
  /\ UNCHANGED <<backend, store, nextId, disk, now, deleted>>

(* SELECT DISTINCT semester ... WHERE class_name=$1                        *)
SemestersOf(rows, class) ==
  LET c == ToParam(class)
  IN {r.semester : r \in {x \in rows : SqlEq(x.class_name, c)}}

SemestersResult(be, rows, class) ==
  IF be = "pg"
    THEN {q \in Orderings(SemestersOf(rows, class)) : IsSorted(q)}
    ELSE Orderings(SemestersOf(rows, class))

SemestersResponses(be, rows, class, dbUp) ==
  IF dbUp THEN {Answer(200, q) : q \in SemestersResult(be, rows, class)}
  ELSE {Answer(500, <<>>)}

(* GET /api/semesters?class=                                               *)
Semesters(class, dbUp) ==
  /\ \E a \in SemestersResponses(backend, store, class, dbUp) :
       last' = [op |-> "semesters", status |-> a.status, res |-> a.res]
  /\ UNCHANGED <<backend, store, nextId, disk, now, deleted>>

(* HasSection without the test for the empty section                      *)
HasSection_NullOnly(be, r) == r.section # Null

(* section IS NOT NULL AND TRIM(section) <> ''   (MySQL: section != '')    *)
HasSection(be, r) ==
  /\ r.section # Null
  /\ IF be = "pg"
       THEN SqlNe(SqlTrim(r.section), Str(<<>>))
       ELSE SqlNe(r.section, Str(<<>>))

(* SELECT DISTINCT section ... WHERE class_name=$1 AND semester=$2 AND ... *)
SectionsOf(be, rows, class, semester) ==
  LET c == ToParam(class)
      n == BindSemester(semester)
  IN {r.section :
        r \in {x \in rows : /\ SqlEq(x.class_name, c)
                            /\ SqlEq(x.semester, n)
                            /\ HasSection(be, x)}}

SectionsResponses(be, rows, class, semester, dbUp) ==
  IF dbUp /\ BindSemester(semester) # BindError
    THEN {Answer(200, q) : q \in Orderings(SectionsOf(be, rows, class, semester))}
    ELSE {Answer(500, <<>>)}

(* GET /api/sections?class=&semester=                                      *)
Sections(class, semester, dbUp) ==
  /\ \E a \in SectionsResponses(backend, store, class, semester, dbUp) :
       last' = [op |-> "sections", status |-> a.status, res |-> a.res]
  /\ UNCHANGED <<backend, store, nextId, disk, now, deleted>>

(* The rows the details query matches, for the handler's className,        *)
(* semester and section                                                    *)
DetailsMatches(rows, className, semester, section) ==
  LET c == ToParam(className)
      n == BindSemester(semester)
  IN IF Truthy(section)
       THEN {r \in rows : /\ SqlEq(SqlTrim(r.class_name), c)
                          /\ SqlEq(r.semester, n)
                          /\ SqlEq(SqlTrim(r.section), section)}
       ELSE {r \in rows : /\ SqlEq(SqlTrim(r.class_name), c)
                          /\ SqlEq(r.semester, n)
                          /\ (r.section = Null \/ SqlEq(SqlTrim(r.section), Str(<<>>)))}

(* QueryClass without the trim                                             *)
QueryClass_NoTrim(class) == class

(* req.query.class?.trim(), Number(req.query.semester),                    *)
(* (req.query.section || "").trim()                                        *)
QueryClass(class) == OptTrim(class)
QuerySemester(semester) == JsNumber(semester)
QuerySection(section) == JsTrim(OrEmpty(section))

(* The answers of the details handler: 500 and null when the query fails;  *)
(* null when no row matches; else one matching row (LIMIT 1 without ORDER  *)
(* BY: any of them)                                                        *)
DetailsResponses(rows, class, semester, section, dbUp) ==
  LET m == DetailsMatches(rows, QueryClass(class), QuerySemester(semester),
                          QuerySection(section))
  IN IF ~dbUp \/ BindSemester(QuerySemester(semester)) = BindError
       THEN {Answer(500, Null)}
     ELSE IF m = {} THEN {Answer(200, Null)}
     ELSE {Answer(200, r) : r \in m}

(* GET /api/details?class=&semester=&section=                              *)
Details(class, semester, section, dbUp) ==
  /\ \E a \in DetailsResponses(store, class, semester, section, dbUp) :
       last' = [op |-> "details", status |-> a.status, res |-> a.res]
  /\ UNCHANGED <<backend, store, nextId, disk, now, deleted>>

(* SELECT id, class_name, semester, section, mentor_name, designation      *)
Summary(r) ==
  [id |-> r.id, class_name |-> r.class_name, semester |-> r.semester,
   section |-> r.section, mentor_name |-> r.mentor_name,
   designation |-> r.designation]

(* ORDER BY class_name, semester                                           *)
RecordsSorted(q) ==
  \A i, j \in DOMAIN q :
    i < j => \/ q[i].class_name # q[j].class_name /\ SqlLeq(q[i].class_name, q[j].class_name)
             \/ q[i].class_name = q[j].class_name /\ SqlLeq(q[i].semester, q[j].semester)

RecordsResult(rows) ==
  {q \in Orderings({Summary(r) : r \in rows}) : RecordsSorted(q)}

RecordsResponses(rows, dbUp) ==
  IF dbUp THEN {Answer(200, q) : q \in RecordsResult(rows)}
  ELSE {Answer(500, <<>>)}

(* GET /api/admin/records                                                  *)
Records(dbUp) ==
  /\ \E a \in RecordsResponses(store, dbUp) :
       last' = [op |-> "records", status |-> a.status, res |-> a.res]
  /\ UNCHANGED <<backend, store, nextId, disk, now, deleted>>

(* The clock moves between requests                                        *)
Tick ==
  /\ now < MaxNow
  /\ now' = now + 1
  /\ UNCHANGED <<backend, store, nextId, disk, deleted, last>>

(* ------------------------------------------------------------- requests  *)
Present == Str(<<" ", "m", " ">>)

(* A request body with every field sent                                    *)
FullBody ==
  [class_name |-> Str(<<" ", "A">>), semester |-> Str(<<"1">>),
   section |-> Str(<<"X", " ">>), academic_year |-> Present,
   mentor_name |-> Present, designation |-> Present, contact |-> Present,
   timetable_link |-> Str(<<" ", "t">>)]

(* Bodies that differ in class and section                                 *)
LookupBodies ==
  {[FullBody EXCEPT !.class_name = c, !.section = x] :
     c \in {Undefined, Str(<<" ", "A">>), Str(<<"B">>)},
     x \in {Str(<<" ">>), Str(<<"X", " ">>)}}

(* Bodies with fields missing or empty                                     *)
AdminBodies ==
  {FullBody,
   [FullBody EXCEPT !.timetable_link = Str(<<>>)],
   [FullBody EXCEPT !.academic_year = Undefined, !.designation = Undefined,
                    !.contact = Undefined]}
    \cup {[FullBody EXCEPT ![k] = Undefined] :
            k \in {"class_name", "semester", "section", "mentor_name",
                   "timetable_link"}}

NoFiles == [k \in FileFields |-> Undefined]
BothFiles == [k \in FileFields |-> Str(<<"a", " ", "b">>)]

FileNames == {Undefined, Str(<<"a", " ", "b">>), Str(<<"a", "_", "b">>)}
UploadFiles == [FileFields -> FileNames]

(* Query strings                                                           *)
QueryClasses == {Undefined, Str(<<"A", " ">>), Str(<<"B">>), Str(<<"a">>)}
QuerySemesters == {Undefined, Str(<<"1">>), Str(<<" ", "2">>), Str(<<"x", "y", "z">>)}
QuerySections == {Undefined, Str(<<" ">>), Str(<<" ", "X">>), Str(<<"x">>)}

(* The details queries sent: [class, semester, section]                    *)
DetailsQueries ==
  {<<Str(<<"A", " ">>), Str(<<"1">>), Undefined>>,
   <<Str(<<"A", " ">>), Str(<<"1">>), Str(<<" ", "X">>)>>,
   <<Str(<<"B">>), Str(<<"1">>), Str(<<" ", "X">>)>>,
   <<Str(<<"a">>), Str(<<"1">>), Str(<<" ">>)>>,
   <<Str(<<"A", " ">>), Str(<<" ", "2">>), Str(<<" ", "X">>)>>,
   <<Str(<<"A", " ">>), Str(<<"x", "y", "z">>), Undefined>>}

ListQueries == {Undefined, Str(<<"A">>)}

IdParams == {Str(NumText(i)) : i \in 1..MaxId}

(* ------------------------------------------------------- specifications  *)
Init ==
  /\ backend \in {"pg", "mysql"}
  /\ store = {}
  /\ nextId = 1
  /\ disk = {}
  /\ now = 1
  /\ deleted = {}
  /\ last = [op |-> "none", status |-> 0, res |-> Null]

Room == Cardinality(store) < MaxRows /\ nextId <= MaxId

(* A request the store fails answers the same whatever its body or query,  *)
(* so the failing requests are sent with one body and one query.           *)
SomeQuery == <<Str(<<"A", " ">>), Str(<<"1">>), Undefined>>

(* The lookups over a table the admin operations fill                      *)
Next ==
  \/ Room /\ \E b \in LookupBodies : Add(b, NoFiles, TRUE)
  \/ Room /\ Add(FullBody, NoFiles, FALSE)
  \/ \E id \in IdParams, b \in LookupBodies : Update(id, b, TRUE)
  \/ \E id \in IdParams : Update(id, FullBody, FALSE)
  \/ \E id \in IdParams, dbUp \in BOOLEAN : Delete(id, dbUp)
  \/ \E dbUp \in BOOLEAN : Classes(dbUp)
  \/ \E c \in ListQueries : Semesters(c, TRUE)
  \/ Semesters(SomeQuery[1], FALSE)
  \/ \E c \in ListQueries : Sections(c, SomeQuery[2], TRUE)
  \/ Sections(SomeQuery[1], SomeQuery[2], FALSE)
  \/ \E q \in DetailsQueries : Details(q[1], q[2], q[3], TRUE)
  \/ Details(SomeQuery[1], SomeQuery[2], SomeQuery[3], FALSE)
  \/ \E dbUp \in BOOLEAN : Records(dbUp)

Spec == Init /\ [][Next]_vars

(* Bodies the admin adds rows with                                         *)
AdminAddBodies == {FullBody, [FullBody EXCEPT !.semester = Undefined]}

(* The admin operations, with attachments                                  *)
NextAdmin ==
  \/ Room /\ \E b \in AdminAddBodies : Add(b, BothFiles, TRUE)
  \/ Room /\ Add(FullBody, BothFiles, FALSE)
  \/ \E id \in IdParams, b \in AdminBodies : Update(id, b, TRUE)
  \/ \E id \in IdParams : Update(id, FullBody, FALSE)
  \/ \E id \in IdParams, dbUp \in BOOLEAN : Delete(id, dbUp)
  \/ \E dbUp \in BOOLEAN : Records(dbUp)

SpecAdmin == Init /\ [][NextAdmin]_vars

(* Uploads against the clock                                               *)
NextUpload ==
  \/ Room /\ \E f \in UploadFiles, dbUp \in BOOLEAN : Add(FullBody, f, dbUp)
  \/ \E id \in IdParams, dbUp \in BOOLEAN : Delete(id, dbUp)
  \/ Tick

SpecUpload == Init /\ [][NextUpload]_vars

(* ---------------------------------------------------------------- claims *)
Elems(q) == {q[i] : i \in DOMAIN q}

(* The record has no section: its section is the empty string or NULL      *)
NoSection(r) == r.section = Null \/ r.section = Str(<<>>)

(* The query string of a stored number                                     *)
QueryOf(v) == Str(NumText(v.n))

SamePair(r, x) == x.class_name = r.class_name /\ x.semester = r.semester

(* The stored records a query can name by class and semester               *)
Named == {r \in store : r.class_name # Null /\ r.semester # Null}

(* C1, as stated: for every stored record with no section, the sections of *)
(* its class and semester leave its section value out (and are empty when  *)
(* the pair has only such records), and the details of its class and       *)
(* semester, section omitted, are that record.                             *)
C1_Original ==
  \A r \in Named :
    NoSection(r) =>
      /\ \A a \in SectionsResponses(backend, store, r.class_name, QueryOf(r.semester), TRUE) :
           /\ a.status = 200
           /\ r.section \notin Elems(a.res)
           /\ (\A x \in store : SamePair(r, x) => NoSection(x)) => a.res = <<>>
      /\ \A a \in DetailsResponses(store, r.class_name, QueryOf(r.semester), Undefined, TRUE) :
           a.status = 200 /\ a.res = r

(* C1, amended: ... and the details of its class and semester, section     *)
(* omitted, are a stored record of that class and semester with no         *)
(* section: that record when it is the only one.                           *)
C1_Amended ==
  \A r \in Named :
    NoSection(r) =>
      /\ \A a \in SectionsResponses(backend, store, r.class_name, QueryOf(r.semester), TRUE) :
           /\ a.status = 200
           /\ r.section \notin Elems(a.res)
           /\ (\A x \in store : SamePair(r, x) => NoSection(x)) => a.res = <<>>
      /\ \A a \in DetailsResponses(store, r.class_name, QueryOf(r.semester), Undefined, TRUE) :
           /\ a.status = 200
           /\ a.res \in store
           /\ NoSection(a.res)
           /\ SamePair(r, a.res)
           /\ (\A x \in store : SamePair(r, x) /\ NoSection(x) => x = r) => a.res = r

(* A details lookup has answered with one of two stored records of the     *)
(* same class and semester that have no section                            *)
C1_Witness ==
  /\ last.op = "details"
  /\ last.status = 200
  /\ last.res \in store
  /\ NoSection(last.res)
  /\ \E x \in Named : x # last.res /\ NoSection(x) /\ SamePair(last.res, x)

(* Query semesters that are numbers, with their values                     *)
NumericSemesters == {<<Str(<<"1">>), 1>>, <<Str(<<" ", "2">>), 2>>}

GivenSections == {x \in QuerySections \ {Undefined} : Trim(x.s) # <<>>}

(* The stored records of trimmed class c, semester n and trimmed section x *)
Matching(rows, c, n, x) ==
  {r \in rows : /\ r.class_name # Null /\ Trim(r.class_name.s) = Trim(c.s)
                /\ r.semester = Num(n)
                /\ r.section # Null /\ Trim(r.section.s) = Trim(x.s)}

C3_NonNumericSemesterIsNoRecord ==
  \A c \in QueryClasses, x \in QuerySections :
    \A a \in DetailsResponses(store, c, Str(<<"x", "y", "z">>), x, TRUE) :
      a.status = 200 /\ a.res = Null

(* The id a path parameter names                                           *)
IdText(i) == Str(NumText(i))

Ids == 1..MaxId

RowsWithId(rows, i) == {r \in rows : r.id = i}

AllBodies == AdminBodies \cup LookupBodies

(* C4: an update changes only the eight non-attachment columns of the row  *)
(* with its id: that row keeps its id, syllabus_link and mentor_photo,     *)
(* every other row is unchanged, and no row is made or removed.            *)
C4_UpdateFrame ==
  [][\A i \in Ids :
       last'.op = "update" /\ last'.id = IdText(i) =>
         /\ \A r \in store : r.id # i => r \in store'
         /\ \A r \in RowsWithId(store, i) :
              \E u \in store' : /\ u.id = i
                                /\ u.syllabus_link = r.syllabus_link
                                /\ u.mentor_photo = r.mentor_photo
         /\ {u.id : u \in store'} = {r.id : r \in store}
         /\ Cardinality(store') = Cardinality(store)
         /\ disk' = disk]_vars

(* An update has succeeded on a row with both attachments, beside another  *)
(* row                                                                     *)
C4_Witness ==
  /\ last.op = "update"
  /\ last.status = 200
  /\ \E r \in store : /\ last.id = IdText(r.id)
                      /\ r.syllabus_link # Null
                      /\ r.mentor_photo # Null
                      /\ r.mentor_name = Null
  /\ Cardinality(store) > 1

(* C5: an update whose id no stored row has answers "Record updated        *)
(* successfully" (the store answering) and leaves the table as it was.     *)
C5_UpdateMissingId ==
  [][\A i \in Ids :
       last'.op = "update" /\ last'.id = IdText(i) /\ RowsWithId(store, i) = {} =>
         /\ store' = store
         /\ \A b \in AllBodies :
              Update(IdText(i), b, TRUE) =>
                last'.status = 200 /\ last'.res = "Record updated successfully"]_vars

(* An update of an id that no row has, beside a stored row, has succeeded  *)
C5_Witness ==
  /\ last.op = "update"
  /\ last.status = 200
  /\ last.res = "Record updated successfully"
  /\ store # {}
  /\ \A r \in store : last.id # IdText(r.id)

(* C6: a delete the store answers removes exactly the row with its id and  *)
(* answers "Record deleted successfully", whether the row was there (the   *)
(* first call) or not (the second); and no row whose id was deleted is in  *)
(* the table, in a details answer or in the admin list afterwards.         *)
C6_DeleteIdempotent ==
  [][/\ \A i \in Ids :
          last'.op = "delete" /\ last'.id = IdText(i) /\ Delete(IdText(i), TRUE) =>
            /\ store' = store \ RowsWithId(store, i)
            /\ last'.status = 200
            /\ last'.res = "Record deleted successfully"
     /\ \A i \in deleted' :
          /\ RowsWithId(store', i) = {}
          /\ \A q \in DetailsQueries :
               \A a \in DetailsResponses(store', q[1], q[2], q[3], TRUE) :
                 a.res # Null => a.res.id # i
          /\ \A a \in RecordsResponses(store', TRUE) :
               \A x \in Elems(a.res) : x.id # i]_vars

(* A second delete of an id has succeeded, deleting nothing, beside a      *)
(* stored row                                                              *)
C6_Witness ==
  /\ last.op = "delete"
  /\ last.status = 200
  /\ last.affected = 0
  /\ \E i \in deleted : last.id = IdText(i)
  /\ store # {}

(* What POST /api/admin/add stores in the eight columns for body b         *)
AddStores(b) == Bound(AddParams(backend, b))

(* C7, as stated: the values an update stores in the eight non-attachment  *)
(* columns are the values an add stores for the same body.                 *)
C7_UpdateStoresAsAdd ==
  [][\A i \in Ids :
       last'.op = "update" /\ last'.id = IdText(i) /\ last'.status = 200 =>
         \A b \in AdminBodies :
           Update(IdText(i), b, TRUE) =>
             \A u \in RowsWithId(store', i) :
               \A k \in Columns : u[k] = AddStores(b)[k]]_vars

(* The names are in ascending order, each once                             *)
Ascending(q) ==
  \A i, j \in DOMAIN q :
    i < j /\ q[i] # Null /\ q[j] # Null => q[i] # q[j] /\ TextLeq(q[i].s, q[j].s)

(* C8, as stated: the classes answer is the distinct class names of the    *)
(* table, each once, in ascending order.                                   *)
C8_ClassesSortedDistinct ==
  \A a \in ClassesResponses(backend, store, TRUE) :
    /\ a.status = 200
    /\ Elems(a.res) = {r.class_name : r \in store}
    /\ Len(a.res) = Cardinality(Elems(a.res))
    /\ Ascending(a.res)

(* The rows that refer to one of the files F                               *)
Referring(rows, F) ==
  {r \in rows : \E k \in Attachments : r[k] # Null /\ Served(r[k]) \in F}

(* C9, as stated: when the insert of an add fails, the answer is 500       *)
(* "Insert failed", no row is added, and the uploaded files are on disk    *)
(* with no row referring to them; an add that succeeds inserts one row.    *)
C9_AddNotAtomic ==
  [][\A f \in UploadFiles, dbUp \in BOOLEAN :
       last'.op = "add" /\ Add(FullBody, f, dbUp) =>
         IF dbUp
           THEN \E r \in store' : r \notin store /\ store' = store \cup {r}
           ELSE /\ last'.status = 500
                /\ last'.res = "Insert failed"
                /\ store' = store
                /\ Written(f, now) \subseteq disk'
                /\ Referring(store', Written(f, now)) = {}]_vars

(* C10, as stated: the files of two uploads are stored under different     *)
(* paths, so an upload writes no path an earlier upload wrote.             *)
C10_StoredPathsDistinct ==
  [][\A f \in UploadFiles, dbUp \in BOOLEAN :
       last'.op = "add" /\ Add(FullBody, f, dbUp) =>
         /\ Written(f, now) \cap disk = {}
         /\ Cardinality(Written(f, now)) =
              Cardinality({k \in FileFields : f[k] # Undefined})]_vars

====
